---- MODULE Spec2Model ----
(***************************************************************************)
(* kival: a Bitcask-style key-value store.                                 *)
(*   record  (src/unnamed/part_007)       binary record codec with CRC32C  *)
(*   log     (src/kv/kv_test.go:34-299)   segment files, Open, BuildIndex  *)
(*   kv      (src/kv/kv.go:1-109)         Put / Get / Del and rotation     *)
(* Files are sequences of bytes.  A uint32 is kept as its four             *)
(* little-endian bytes, so that 32-bit wrap-around is explicit.            *)
(***************************************************************************)
EXTENDS Integers, Sequences, FiniteSets, TLC

-----------------------------------------------------------------------------
(* Bytes and uint32 arithmetic                                             *)

LE32(n) ==
    << n % 256, (n \div 256) % 256, (n \div 65536) % 256, (n \div 16777216) % 256 >>

\* the value of a uint32 that is below 2^31
Int32(b) ==
    b[1] + 256 * b[2] + 65536 * b[3] + 16777216 * b[4]

Small32(b) ==
    b[4] < 128

\* uint32 addition, wrapping modulo 2^32
Add32(a, b) ==
    LET s1 == a[1] + b[1]
        s2 == a[2] + b[2] + (s1 \div 256)
        s3 == a[3] + b[3] + (s2 \div 256)
        s4 == a[4] + b[4] + (s3 \div 256)
    IN  << s1 % 256, s2 % 256, s3 % 256, s4 % 256 >>

\* the element of a singleton { e : x \in { v } }: e with x bound to the value v
The(S) ==
    CHOOSE x \in S : TRUE

RECURSIVE XorBits(_, _, _)
XorBits(a, b, n) ==
    IF n = 0 THEN 0
    ELSE ((a + b) % 2) + 2 * XorBits(a \div 2, b \div 2, n - 1)

\* the tuple << F(lo), ..., F(hi) >>, built once for a lookup table
RECURSIVE Table(_, _, _)
Table(F(_), lo, hi) ==
    IF lo > hi THEN << >>
    ELSE IF lo = hi THEN << F(lo) >>
    ELSE Table(F, lo, (lo + hi) \div 2) \o Table(F, (lo + hi) \div 2 + 1, hi)

Xor4Row(a) ==
    LET X(b) == XorBits(a - 1, b - 1, 4) IN Table(X, 1, 16)

\* exclusive or of two 4-bit numbers: Xor4[a + 1][b + 1]
Xor4 ==
    Table(Xor4Row, 1, 16)

Xor8(a, b) ==
    16 * Xor4[(a \div 16) + 1][(b \div 16) + 1] + Xor4[(a % 16) + 1][(b % 16) + 1]

Xor32(x, y) ==
    << Xor8(x[1], y[1]), Xor8(x[2], y[2]), Xor8(x[3], y[3]), Xor8(x[4], y[4]) >>

Shr1(x) ==
    << (x[1] \div 2) + 128 * (x[2] % 2), (x[2] \div 2) + 128 * (x[3] % 2),
       (x[3] \div 2) + 128 * (x[4] % 2), x[4] \div 2 >>

-----------------------------------------------------------------------------
(* hash/crc32 with the Castagnoli polynomial (reflected 0x82F63B78)         *)

Castagnoli ==
    << 120, 59, 246, 130 >>

RECURSIVE CrcBits(_, _)
CrcBits(c, n) ==
    IF n = 0 THEN c
    ELSE CrcBits(IF c[1] % 2 = 1 THEN Xor32(Shr1(c), Castagnoli) ELSE Shr1(c), n - 1)

CrcEntry(i) ==
    CrcBits(<< i - 1, 0, 0, 0 >>, 8)

\* crc32.MakeTable(crc32.Castagnoli): the entry of byte b is crcTable[b + 1]
crcTable ==
    Table(CrcEntry, 1, 256)

\* one byte of the table-driven update loop
CrcByte(c, b) ==
    Xor32(crcTable[Xor8(c[1], b) + 1], << c[2], c[3], c[4], 0 >>)

\* the update loop over data[lo..hi], split in halves to keep the evaluation shallow
RECURSIVE CrcUpdate(_, _, _, _)
CrcUpdate(c, data, lo, hi) ==
    IF lo > hi THEN c
    ELSE IF lo = hi THEN CrcByte(c, data[lo])
    ELSE The({ CrcUpdate(left, data, (lo + hi) \div 2 + 1, hi) :
               left \in { CrcUpdate(c, data, lo, (lo + hi) \div 2) } })

\* crc32.Checksum(data, table)
Checksum(data) ==
    Xor32(CrcUpdate(<< 255, 255, 255, 255 >>, data, 1, Len(data)),
          << 255, 255, 255, 255 >>)

-----------------------------------------------------------------------------
(* Inputs: keys and values are byte strings                                *)

HeaderSize == 16
CustomEpoch == 1704067200
MaxDataFileSize == 500

\* length of the long value that fills most of a segment
BigLen == 449

EmptyKey == << >>
KeyA == << 97 >>
KeyB == << 98, 98 >>
KeyC == << 99 >>
NoValue == << >>
ValX == << 120 >>
ValY == << 121, 121 >>
ValZ == << 122 >>
Big == [i \in 1..BigLen |-> 66]

\* length of a value whose record fits no segment, whatever the key
HugeLen == 485
Huge == [i \in 1..HugeLen |-> 72]

AllKeys == { EmptyKey, KeyA, KeyB }
AllValues == { NoValue, ValX, ValY, ValZ, Big }

\* wall-clock seconds (time.Now().Unix()), not before the custom epoch
Clock == { CustomEpoch + 77, CustomEpoch + 300 }

-----------------------------------------------------------------------------
(* package record                                                          *)

ErrNone == "nil"
ErrEmptyKey == "ErrEmptyKey"
ErrPartialWrite == "ErrPartialWrite"
ErrCorruptRecord == "ErrCorruptRecord"
ErrEOF == "io.EOF"

\* GenerateCRC: checksum over keySize | valSize | key | val (no timestamp)
GenerateCRCBytes(keySize, valSize, key, val) ==
    Checksum(keySize \o valSize \o key \o val)

\* the checksums of the records the inputs can form, computed once
InputPairs ==
    (AllKeys \cup { KeyC }) \X AllValues

RECURSIVE crcOfPairs(_)
crcOfPairs(pairs) ==
    IF pairs = {} THEN << >>
    ELSE LET kv == CHOOSE p \in pairs : TRUE
         IN  (kv :> GenerateCRCBytes(LE32(Len(kv[1])), LE32(Len(kv[2])), kv[1], kv[2]))
               @@ crcOfPairs(pairs \ {kv})

crcOfInputs ==
    crcOfPairs(InputPairs)

GenerateCRC(keySize, valSize, key, val) ==
    IF /\ << key, val >> \in InputPairs
       /\ keySize = LE32(Len(key))
       /\ valSize = LE32(Len(val))
    THEN crcOfInputs[<< key, val >>]
    ELSE GenerateCRCBytes(keySize, valSize, key, val)

\* Encode that lays the value size before the key size
EncodeSizesSwapped(key, val, now) ==
    IF Len(key) = 0 THEN << >>
    ELSE GenerateCRC(LE32(Len(key)), LE32(Len(val)), key, val)
           \o LE32(now - CustomEpoch) \o LE32(Len(val)) \o LE32(Len(key)) \o key \o val

\* Encode at wall-clock time now: crc | timestamp | keySize | valSize | key | val;
\* an empty key yields the empty encoding
Encode(key, val, now) ==
    IF Len(key) = 0 THEN << >>
    ELSE LET keySize == LE32(Len(key))
             valSize == LE32(Len(val))
         IN  GenerateCRC(keySize, valSize, key, val)
               \o LE32(now - CustomEpoch) \o keySize \o valSize \o key \o val

NoRecord ==
    [Crc |-> << >>, KeySize |-> << >>, ValueSize |-> << >>,
     Key |-> << >>, Value |-> << >>, Timestamp |-> << >>]

DecodeFail(e) ==
    [err |-> e, rec |-> NoRecord, next |-> -1]

Slice(f, from, n) ==
    SubSeq(f, from + 1, from + n)

\* int64(recordSize) + offset > stat.Size(), recordSize a uint32
BiggerThanFile(recordSize, offset, size) ==
    IF Small32(recordSize) THEN Int32(recordSize) + offset > size ELSE TRUE

\* f.ReadAt(make([]byte, n), offset) comes back short (io.EOF)
ShortRead(n, offset, size) ==
    IF Small32(n) THEN Int32(n) > 0 /\ Int32(n) + offset > size ELSE TRUE

\* Decode without the check of the record size against the file size
DecodeNoSizeCheck(f, offset) ==
    LET size == Len(f) IN
    IF offset + HeaderSize > size THEN DecodeFail(ErrPartialWrite)
    ELSE
    LET header == Slice(f, offset, HeaderSize)
        crc == SubSeq(header, 1, 4)
        timestamp == SubSeq(header, 5, 8)
        keySize == SubSeq(header, 9, 12)
        valSize == SubSeq(header, 13, 16)
        keyAt == offset + HeaderSize
    IN
    IF keySize = << 0, 0, 0, 0 >> THEN DecodeFail(ErrEmptyKey)
    ELSE IF ShortRead(keySize, keyAt, size) THEN DecodeFail(ErrEOF)
    ELSE IF ShortRead(valSize, keyAt + Int32(keySize), size) THEN DecodeFail(ErrEOF)
    ELSE
    LET key == Slice(f, keyAt, Int32(keySize))
        val == Slice(f, keyAt + Int32(keySize), Int32(valSize))
    IN
    IF crc # GenerateCRC(keySize, valSize, key, val) THEN DecodeFail(ErrCorruptRecord)
    ELSE [err |-> ErrNone,
          rec |-> [Crc |-> crc, KeySize |-> keySize, ValueSize |-> valSize,
                   Key |-> key, Value |-> val, Timestamp |-> timestamp],
          next |-> keyAt + Int32(keySize) + Int32(valSize)]

\* Decode(f, offset): the record, the offset after it, the error
Decode(f, offset) ==
    LET size == Len(f) IN
    IF offset + HeaderSize > size THEN DecodeFail(ErrPartialWrite)
    ELSE
    LET header == Slice(f, offset, HeaderSize)
        crc == SubSeq(header, 1, 4)
        timestamp == SubSeq(header, 5, 8)
        keySize == SubSeq(header, 9, 12)
        valSize == SubSeq(header, 13, 16)
        recordSize == Add32(Add32(LE32(HeaderSize), keySize), valSize)
        keyAt == offset + HeaderSize
    IN
    IF keySize = << 0, 0, 0, 0 >> THEN DecodeFail(ErrEmptyKey)
    ELSE IF BiggerThanFile(recordSize, offset, size) THEN DecodeFail(ErrPartialWrite)
    ELSE IF ShortRead(keySize, keyAt, size) THEN DecodeFail(ErrEOF)
    ELSE IF ShortRead(valSize, keyAt + Int32(keySize), size) THEN DecodeFail(ErrEOF)
    ELSE
    LET key == Slice(f, keyAt, Int32(keySize))
        val == Slice(f, keyAt + Int32(keySize), Int32(valSize))
    IN
    IF crc # GenerateCRC(keySize, valSize, key, val) THEN DecodeFail(ErrCorruptRecord)
    ELSE [err |-> ErrNone,
          rec |-> [Crc |-> crc, KeySize |-> keySize, ValueSize |-> valSize,
                   Key |-> key, Value |-> val, Timestamp |-> timestamp],
          next |-> keyAt + Int32(keySize) + Int32(valSize)]

-----------------------------------------------------------------------------
(* Files and directories                                                   *)

DEFAULT_DB_PATH == "./data"
Paths == { DEFAULT_DB_PATH, "./db" }

Zeros(n) ==
    [i \in 1..n |-> 0]

\* (*os.File).WriteAt(buf, off): overwrite in place, zero-fill a gap past the end
WriteAt(f, buf, off) ==
    IF Len(buf) = 0 THEN f
    ELSE LET pre == IF off <= Len(f) THEN SubSeq(f, 1, off)
                    ELSE f \o Zeros(off - Len(f))
             post == IF off + Len(buf) < Len(f)
                     THEN SubSeq(f, off + Len(buf) + 1, Len(f)) ELSE << >>
         IN  pre \o buf \o post

\* os.MkdirAll(dir): a directory that is missing is created empty
MkdirAll(dsk, dir) ==
    IF dir \in DOMAIN dsk THEN dsk ELSE (dir :> << >>) @@ dsk

\* os.MkdirAll(dir), then os.OpenFile(dir/<id>.data, O_CREATE|O_RDWR): the
\* directory tree afterwards
CreateFile(dsk, id, dir) ==
    IF dir \in DOMAIN dsk /\ id \in DOMAIN dsk[dir] THEN dsk
    ELSE [MkdirAll(dsk, dir) EXCEPT ![dir] = (id :> << >>) @@ @]

-----------------------------------------------------------------------------
(* package log                                                             *)

ErrCapacityExceeded == "ErrCapacityExceeded"
ErrReadOnlySegment == "ErrReadOnlySegment"
ErrLogClosed == "ErrLogClosed"
ErrFileClosed == "os.ErrClosed"

NoPosition ==
    [FileID |-> 0, ValuePos |-> 0, ValueSize |-> 0, timestamp |-> << 0, 0, 0, 0 >>]

NewLogPosition(fileID, valueSize, timestamp, valuePos) ==
    [FileID |-> fileID, ValuePos |-> valuePos, ValueSize |-> valueSize,
     timestamp |-> timestamp]

\* log.New(id, dir): the logFile handle on dir/<id>.data, positioned at its end
LogNew(dsk, id, dir) ==
    [id |-> id, dir |-> dir, writePos |-> Len(CreateFile(dsk, id, dir)[dir][id]),
     readOnly |-> FALSE, closed |-> FALSE]

FileOf(dsk, lf) ==
    dsk[lf.dir][lf.id]

\* the capacity check that also rejects a record ending exactly at the limit
isCapacityExceededAtLimit(lf, key, val) ==
    HeaderSize + Len(key) + Len(val) + lf.writePos >= MaxDataFileSize

\* the capacity check that looks at the record alone, not at the write position
isCapacityExceededRecordOnly(lf, key, val) ==
    HeaderSize + Len(key) + Len(val) > MaxDataFileSize

isCapacityExceeded(lf, key, val) ==
    HeaderSize + Len(key) + Len(val) + lf.writePos > MaxDataFileSize

\* (*logFile).Append: the error, the position, the handle and the directory tree
LogAppend(dsk, lf, key, val, now) ==
    IF lf.readOnly
    THEN [err |-> ErrReadOnlySegment, pos |-> NoPosition, lf |-> lf, disk |-> dsk]
    ELSE IF isCapacityExceeded(lf, key, val)
    THEN [err |-> ErrCapacityExceeded, pos |-> NoPosition, lf |-> lf, disk |-> dsk]
    ELSE IF lf.closed
    THEN [err |-> ErrFileClosed, pos |-> NoPosition, lf |-> lf, disk |-> dsk]
    ELSE The({ [err |-> ErrNone,
                pos |-> NewLogPosition(lf.id, Len(val), LE32(now), lf.writePos),
                lf |-> [lf EXCEPT !.writePos = @ + Len(buf)],
                disk |-> [dsk EXCEPT ![lf.dir][lf.id] = WriteAt(@, buf, lf.writePos)]] :
               buf \in { Encode(key, val, now) } })

\* ReadAt that does not look at the closed flag
ReadAtUnchecked(dsk, lf, pos) ==
    The({ IF d.err # ErrNone THEN [err |-> d.err, val |-> << >>]
          ELSE [err |-> ErrNone, val |-> d.rec.Value] :
          d \in { Decode(FileOf(dsk, lf), pos.ValuePos) } })

\* (*logFile).ReadAt
ReadAt(dsk, lf, pos) ==
    IF lf.closed THEN [err |-> ErrLogClosed, val |-> << >>]
    ELSE The({ IF d.err # ErrNone THEN [err |-> d.err, val |-> << >>]
               ELSE [err |-> ErrNone, val |-> d.rec.Value] :
               d \in { Decode(FileOf(dsk, lf), pos.ValuePos) } })

\* MarkReadOnly that leaves the flag as it is
MarkReadOnlyNothing(lf) ==
    lf

MarkReadOnly(lf) ==
    [lf EXCEPT !.readOnly = TRUE]

\* (*logFile).Close: closed is set, and the error is that of (*os.File).Close,
\* which fails on a file that is already closed
Close(lf) ==
    [err |-> IF lf.closed THEN ErrFileClosed ELSE ErrNone,
     lf |-> [lf EXCEPT !.closed = TRUE]]

IndexDelete(idx, key) ==
    [k \in DOMAIN idx \ {key} |-> idx[k]]

IndexSet(idx, key, pos) ==
    (key :> pos) @@ idx

\* the scan loop of BuildIndex from offset: the error, the index, the offset reached
\* (offset += bytesRead, bytesRead being Decode's second result)
RECURSIVE ScanFrom(_, _, _, _)
ScanFrom(f, id, offset, idx) ==
    IF ~(offset < Len(f)) THEN [err |-> ErrNone, idx |-> idx, offset |-> offset]
    ELSE The({
         IF d.err \in { ErrEOF, ErrPartialWrite, ErrCorruptRecord }
         THEN [err |-> ErrNone, idx |-> idx, offset |-> offset]
         ELSE IF d.err # ErrNone
         THEN [err |-> d.err, idx |-> idx, offset |-> offset]
         ELSE IF d.rec.ValueSize = << 0, 0, 0, 0 >>
         THEN ScanFrom(f, id, offset + d.next, IndexDelete(idx, d.rec.Key))
         ELSE ScanFrom(f, id, offset + d.next,
                       IndexSet(idx, d.rec.Key,
                                NewLogPosition(id, Int32(d.rec.ValueSize),
                                               d.rec.Timestamp, offset))) :
         d \in { Decode(f, offset) } })

\* BuildIndex that reports a scan that stopped short of the file's end
BuildIndexStrict(dsk, lf, idx) ==
    The({ IF r.offset < Len(FileOf(dsk, lf))
          THEN [err |-> ErrPartialWrite, idx |-> idx, lf |-> lf]
          ELSE [err |-> r.err, idx |-> r.idx,
                lf |-> IF r.err = ErrNone THEN [lf EXCEPT !.writePos = r.offset] ELSE lf] :
          r \in { ScanFrom(FileOf(dsk, lf), lf.id, 0, idx) } })

\* (*logFile).BuildIndex(idx): on success writePos is the offset reached
BuildIndex(dsk, lf, idx) ==
    The({ [err |-> r.err, idx |-> r.idx,
           lf |-> IF r.err = ErrNone THEN [lf EXCEPT !.writePos = r.offset] ELSE lf] :
          r \in { ScanFrom(FileOf(dsk, lf), lf.id, 0, idx) } })

\* decimal digits of a file id, as fmt.Sprintf("%d") prints them
RECURSIVE Digits(_)
Digits(n) ==
    IF n < 10 THEN << n >> ELSE Append(Digits(n \div 10), n % 10)

\* "<a>.data" < "<b>.data" as strings ('.' sorts before every digit)
RECURSIVE StrLess(_, _)
StrLess(a, b) ==
    IF Len(a) = 0 THEN Len(b) > 0
    ELSE IF Len(b) = 0 THEN FALSE
    ELSE IF Head(a) # Head(b) THEN Head(a) < Head(b)
    ELSE StrLess(Tail(a), Tail(b))

\* sort.Strings over the globbed names, given as the ids they carry
RECURSIVE SortStrings(_)
SortStrings(ids) ==
    IF ids = {} THEN << >>
    ELSE LET first == CHOOSE i \in ids :
                        \A j \in ids \ {i} : StrLess(Digits(i), Digits(j))
         IN  << first >> \o SortStrings(ids \ {first})

\* the loop of log.Open over the sorted files, from the i-th on
RECURSIVE OpenFiles(_, _, _, _, _, _)
OpenFiles(dsk, path, files, i, index, logs) ==
    The({ IF b.err # ErrNone
          THEN [err |-> b.err, active |-> b.lf, logs |-> logs, index |-> index,
                disk |-> dsk]
          ELSE IF i = Len(files)
          THEN [err |-> ErrNone, active |-> b.lf, logs |-> logs, index |-> b.idx,
                disk |-> dsk]
          ELSE OpenFiles(dsk, path, files, i + 1, b.idx, (files[i] :> b.lf) @@ logs) :
          b \in { BuildIndex(dsk, LogNew(dsk, files[i], path), index) } })

\* Open that makes the directory and a handle but no segment file when it finds none
OpenWithoutFile(dsk, path) ==
    The({ IF Len(files) = 0
          THEN [err |-> ErrNone, active |-> LogNew(dsk, 1, path), logs |-> << >>,
                index |-> << >>, disk |-> MkdirAll(dsk, path)]
          ELSE OpenFiles(dsk, path, files, 1, << >>, << >>) :
          files \in { SortStrings(DOMAIN MkdirAll(dsk, path)[path]) } })

\* log.Open(path): the active segment, the other segments by id, the index
Open(dsk, path) ==
    The({ IF Len(files) = 0
          THEN [err |-> ErrNone, active |-> LogNew(dsk, 1, path), logs |-> << >>,
                index |-> << >>, disk |-> CreateFile(dsk, 1, path)]
          ELSE OpenFiles(dsk, path, files, 1, << >>, << >>) :
          files \in { SortStrings(DOMAIN MkdirAll(dsk, path)[path]) } })

-----------------------------------------------------------------------------
(* package kv: the store is activeLog, logs, keyDir over the directory     *)
(* tree disk                                                               *)

ErrKeyNotFound == "ErrKeyNotFound"
ErrRotatedAppend == "failed to append to rotated log"

\* kv.New(path)
New(dsk, path) ==
    The({ [err |-> o.err, activeLog |-> o.active, logs |-> o.logs, keyDir |-> o.index,
           disk |-> o.disk] :
          o \in { Open(dsk, path) } })

\* (*kv).rotateActiveLog: the new segment is created in DEFAULT_DB_PATH
rotateActiveLog(st, key, data, now) ==
    The({ [err |-> IF a.err = ErrNone THEN ErrNone ELSE ErrRotatedAppend,
           pos |-> a.pos,
           st |-> [activeLog |-> a.lf,
                   logs |-> (st.activeLog.id :> MarkReadOnly(st.activeLog)) @@ st.logs,
                   keyDir |-> st.keyDir, disk |-> a.disk]] :
          a \in { LogAppend(CreateFile(st.disk, st.activeLog.id + 1, DEFAULT_DB_PATH),
                            LogNew(st.disk, st.activeLog.id + 1, DEFAULT_DB_PATH),
                            key, data, now) } })

\* Put that rotates again when the Append on the new segment fails
PutRotatesAgain(st, key, data, now) ==
    The({ IF a.err = ErrNone
          THEN [err |-> ErrNone, pos |-> a.pos,
                st |-> [activeLog |-> a.lf, logs |-> st.logs,
                        keyDir |-> IndexSet(st.keyDir, key, a.pos), disk |-> a.disk]]
          ELSE IF a.err = ErrCapacityExceeded
          THEN The({ IF r.err # ErrNone
                     THEN The({ [err |-> q.err, pos |-> NoPosition, st |-> q.st] :
                                q \in { rotateActiveLog(r.st, key, data, now) } })
                     ELSE [err |-> ErrNone, pos |-> r.pos,
                           st |-> [r.st EXCEPT !.keyDir = IndexSet(@, key, r.pos)]] :
                     r \in { rotateActiveLog(st, key, data, now) } })
          ELSE [err |-> a.err, pos |-> NoPosition, st |-> st] :
          a \in { LogAppend(st.disk, st.activeLog, key, data, now) } })

\* (*kv).Put
Put(st, key, data, now) ==
    The({ IF a.err = ErrNone
          THEN [err |-> ErrNone, pos |-> a.pos,
                st |-> [activeLog |-> a.lf, logs |-> st.logs,
                        keyDir |-> IndexSet(st.keyDir, key, a.pos), disk |-> a.disk]]
          ELSE IF a.err = ErrCapacityExceeded
          THEN The({ IF r.err # ErrNone
                     THEN [err |-> r.err, pos |-> NoPosition, st |-> r.st]
                     ELSE [err |-> ErrNone, pos |-> r.pos,
                           st |-> [r.st EXCEPT !.keyDir = IndexSet(@, key, r.pos)]] :
                     r \in { rotateActiveLog(st, key, data, now) } })
          ELSE [err |-> a.err, pos |-> NoPosition, st |-> st] :
          a \in { LogAppend(st.disk, st.activeLog, key, data, now) } })

\* Get that reads every position from the active segment
GetFromActive(st, key) ==
    IF key \notin DOMAIN st.keyDir THEN [err |-> ErrKeyNotFound, val |-> << >>]
    ELSE ReadAt(st.disk, st.activeLog, st.keyDir[key])

\* (*kv).Get
Get(st, key) ==
    IF key \notin DOMAIN st.keyDir THEN [err |-> ErrKeyNotFound, val |-> << >>]
    ELSE LET pos == st.keyDir[key]
         IN  IF pos.FileID \in DOMAIN st.logs
             THEN ReadAt(st.disk, st.logs[pos.FileID], pos)
             ELSE ReadAt(st.disk, st.activeLog, pos)

\* Del that appends the tombstone and keeps the index entry
DelKeepsEntry(st, key, now) ==
    IF key \notin DOMAIN st.keyDir
    THEN [err |-> ErrKeyNotFound, pos |-> NoPosition, st |-> st]
    ELSE The({ IF a.err # ErrNone THEN [err |-> a.err, pos |-> NoPosition, st |-> st]
               ELSE [err |-> ErrNone, pos |-> a.pos,
                     st |-> [activeLog |-> a.lf, logs |-> st.logs,
                             keyDir |-> st.keyDir, disk |-> a.disk]] :
               a \in { LogAppend(st.disk, st.activeLog, key, << >>, now) } })

\* Del that appends the tombstone before it looks the key up
DelAppendsFirst(st, key, now) ==
    The({ IF key \notin DOMAIN st.keyDir
          THEN [err |-> ErrKeyNotFound, pos |-> NoPosition,
                st |-> [st EXCEPT !.activeLog = a.lf, !.disk = a.disk]]
          ELSE IF a.err # ErrNone THEN [err |-> a.err, pos |-> NoPosition, st |-> st]
          ELSE [err |-> ErrNone, pos |-> a.pos,
                st |-> [activeLog |-> a.lf, logs |-> st.logs,
                        keyDir |-> IndexDelete(st.keyDir, key), disk |-> a.disk]] :
          a \in { LogAppend(st.disk, st.activeLog, key, << >>, now) } })

\* (*kv).Del
Del(st, key, now) ==
    IF key \notin DOMAIN st.keyDir
    THEN [err |-> ErrKeyNotFound, pos |-> NoPosition, st |-> st]
    ELSE The({ IF a.err # ErrNone THEN [err |-> a.err, pos |-> NoPosition, st |-> st]
               ELSE [err |-> ErrNone, pos |-> a.pos,
                     st |-> [activeLog |-> a.lf, logs |-> st.logs,
                             keyDir |-> IndexDelete(st.keyDir, key), disk |-> a.disk]] :
               a \in { LogAppend(st.disk, st.activeLog, key, << >>, now) } })

\* the directory tree left by a crash inside Put's final WriteAt, after n bytes
TornPut(st, key, data, now, n) ==
    The({ IF st.activeLog.readOnly \/ st.activeLog.closed THEN st.disk
          ELSE IF ~isCapacityExceeded(st.activeLog, key, data)
          THEN [st.disk EXCEPT ![st.activeLog.dir][st.activeLog.id] =
                                   WriteAt(@, buf, st.activeLog.writePos)]
          ELSE IF isCapacityExceeded(newLog, key, data)
          THEN CreateFile(st.disk, newLog.id, DEFAULT_DB_PATH)
          ELSE [CreateFile(st.disk, newLog.id, DEFAULT_DB_PATH)
                  EXCEPT ![DEFAULT_DB_PATH][newLog.id] = WriteAt(@, buf, newLog.writePos)] :
          buf \in { SubSeq(Encode(key, data, now), 1, n) },
          newLog \in { LogNew(st.disk, st.activeLog.id + 1, DEFAULT_DB_PATH) } })

-----------------------------------------------------------------------------
(* State                                                                   *)

VARIABLES
    disk,       \* directory -> file id -> bytes of <id>.data
    path,       \* the directory the store is opened on
    up,         \* a store object exists (kv.New succeeded)
    activeLog,  \* kv.activeLog (in the segment runs: the segment under test)
    logs,       \* kv.logs
    keyDir,     \* kv.keyDir
    hist        \* the calls made so far, with their results

vars == << disk, path, up, activeLog, logs, keyDir, hist >>

\* number of calls in a run of the store
MaxOps == 3

\* number of calls in a run of the store over short records
MaxSeqOps == 5

\* number of appends to the segment under test
MaxAppends == 2

St ==
    [activeLog |-> activeLog, logs |-> logs, keyDir |-> keyDir, disk |-> disk]

\* a call: its arguments, its error, and for a write the segment directory, the
\* position returned and the wall-clock time; n is the damage done to a file
Call(op, key, val, err, dir, pos, now, n) ==
    [op |-> op, key |-> key, val |-> val, err |-> err, dir |-> dir, pos |-> pos,
     now |-> now, n |-> n]

Install(st) ==
    /\ disk' = st.disk
    /\ activeLog' = st.activeLog
    /\ logs' = st.logs
    /\ keyDir' = st.keyDir

\* kv.New(path) on an empty directory tree
Init ==
    /\ path \in Paths
    /\ \E n \in { New([d \in Paths |-> << >>], path) } :
        /\ disk = n.disk
        /\ activeLog = n.activeLog
        /\ logs = n.logs
        /\ keyDir = n.keyDir
    /\ up = TRUE
    /\ hist = << >>

DoPut(key, data, now) ==
    \E r \in { Put(St, key, data, now) } :
        /\ up
        /\ Install(r.st)
        /\ hist' = Append(hist, Call("Put", key, data, r.err, r.st.activeLog.dir,
                                     r.pos, now, 0))
        /\ UNCHANGED << path, up >>

DoGet(key) ==
    /\ up
    /\ Get(St, key).err \in { ErrNone, ErrKeyNotFound, ErrPartialWrite,
                              ErrCorruptRecord, ErrEmptyKey, ErrEOF, ErrLogClosed }
    /\ UNCHANGED vars

\* Del; a Del that finds no key changes nothing and is not recorded
DoDel(key, now) ==
    \E r \in { Del(St, key, now) } :
        /\ up
        /\ r.err # ErrKeyNotFound
        /\ Install(r.st)
        /\ hist' = Append(hist, Call("Del", key, << >>, r.err, r.st.activeLog.dir,
                                     r.pos, now, 0))
        /\ UNCHANGED << path, up >>

\* the process ends and kv.New(path) runs again on what is on disk
Restart(dsk, op, key, val, now, n) ==
    \E r \in { New(dsk, path) } :
        /\ up' = (r.err = ErrNone)
        /\ Install(r)
        /\ hist' = Append(hist, Call(op, key, val, r.err, path, NoPosition, now, n))
        /\ UNCHANGED path

Reopen ==
    /\ up
    /\ Restart(disk, "Reopen", << >>, << >>, 0, 0)

\* the process dies inside Put(key, data) with n bytes of the record written,
\* and is started again
CrashInPut(key, data, now, n) ==
    /\ up
    /\ n < Len(Encode(key, data, now))
    /\ Restart(TornPut(St, key, data, now, n), "Crash", key, data, now, n)

StoreClock == { CustomEpoch + 77 }
Keys == { EmptyKey, KeyA, KeyB }
Values == { NoValue, ValX, Big, Huge }
TornKeys == { KeyA }
TornValues == { ValX, Big }
TornCuts == { 0, 1, 17 }

Next ==
    \/ \E k \in Keys, v \in Values, now \in StoreClock :
        Len(hist) < MaxOps /\ DoPut(k, v, now)
    \/ \E k \in Keys :
        Len(hist) < MaxOps /\ DoGet(k)
    \/ \E k \in Keys, now \in StoreClock :
        Len(hist) < MaxOps /\ DoDel(k, now)
    \/ Len(hist) < MaxOps /\ Reopen
    \/ \E k \in TornKeys, v \in TornValues, n \in TornCuts, now \in StoreClock :
        Len(hist) < MaxOps /\ CrashInPut(k, v, now, n)

Spec == Init /\ [][Next]_vars

\* longer runs over short records with non-empty keys and values
SeqKeys == { KeyA, KeyB }
SeqValues == { ValX, ValY, ValZ }
SeqTornCuts == { 1, 17 }

NextSeq ==
    \/ \E k \in SeqKeys, v \in SeqValues, now \in StoreClock :
        Len(hist) < MaxSeqOps /\ DoPut(k, v, now)
    \/ \E k \in SeqKeys :
        Len(hist) < MaxSeqOps /\ DoGet(k)
    \/ \E k \in SeqKeys, now \in StoreClock :
        Len(hist) < MaxSeqOps /\ DoDel(k, now)
    \/ Len(hist) < MaxSeqOps /\ Reopen
    \/ \E n \in SeqTornCuts, now \in StoreClock :
        Len(hist) < MaxSeqOps /\ CrashInPut(KeyA, ValX, now, n)

SpecSeq == Init /\ [][NextSeq]_vars

\* number of calls in a run that fills segment after segment
MaxRotOps == 12

\* every Put fills a segment, so that each further Put rotates; the store is
\* reopened
NextRot ==
    \/ \E now \in StoreClock :
        Len(hist) < MaxRotOps /\ DoPut(KeyA, Big, now)
    \/ Len(hist) < MaxRotOps /\ Reopen

SpecRot == Init /\ [][NextRot]_vars

-----------------------------------------------------------------------------
(* One segment on its own: records are appended to a fresh segment, then    *)
(* the file is damaged once (its tail cut off, or one bit flipped in the    *)
(* last record) and read back                                              *)

SegKeys == { KeyA, KeyB }
SegValues == { NoValue, ValX }

\* log.New(1, DEFAULT_DB_PATH) on an empty directory tree
InitSeg ==
    /\ path = DEFAULT_DB_PATH
    /\ disk = CreateFile([d \in Paths |-> << >>], 1, DEFAULT_DB_PATH)
    /\ activeLog = LogNew([d \in Paths |-> << >>], 1, DEFAULT_DB_PATH)
    /\ logs = << >>
    /\ keyDir = << >>
    /\ up = FALSE
    /\ hist = << >>

Damaged ==
    \E i \in 1..Len(hist) : hist[i].op \in { "Truncate", "Flip" }

SegAppend(key, val, now) ==
    \E a \in { LogAppend(disk, activeLog, key, val, now) } :
        /\ ~Damaged
        /\ Len(hist) < MaxAppends
        /\ disk' = a.disk
        /\ activeLog' = a.lf
        /\ hist' = Append(hist, Call("Append", key, val, a.err, activeLog.dir, a.pos,
                                     now, 0))
        /\ UNCHANGED << path, up, logs, keyDir >>

\* the last n bytes of the segment file are lost, 1 <= n < the last record's size
Truncate(n) ==
    /\ ~Damaged
    /\ hist # << >>
    /\ \E h \in { hist[Len(hist)] } :
        /\ h.err = ErrNone
        /\ n >= 1
        /\ n < Len(Encode(h.key, h.val, h.now))
        /\ disk' = [disk EXCEPT ![activeLog.dir][activeLog.id] =
                                    SubSeq(@, 1, Len(@) - n)]
        /\ hist' = Append(hist, Call("Truncate", h.key, h.val, ErrNone, h.dir, h.pos,
                                     h.now, n))
    /\ UNCHANGED << path, up, activeLog, logs, keyDir >>

\* bit b of byte i of the last record is inverted
FlipBit(i, b) ==
    /\ ~Damaged
    /\ hist # << >>
    /\ \E h \in { hist[Len(hist)] } :
        /\ h.err = ErrNone
        /\ i < Len(Encode(h.key, h.val, h.now))
        /\ disk' = [disk EXCEPT ![activeLog.dir][activeLog.id][h.pos.ValuePos + i + 1] =
                                    Xor8(@, 2 ^ b)]
        /\ hist' = Append(hist, Call("Flip", h.key, h.val, ErrNone, h.dir, h.pos,
                                     h.now, 8 * i + b))
    /\ UNCHANGED << path, up, activeLog, logs, keyDir >>

\* the longest record of the segment runs
MaxRecord == HeaderSize + 2 + 1

NextSeg ==
    \/ \E k \in SegKeys, v \in SegValues, now \in Clock : SegAppend(k, v, now)
    \/ \E n \in 1..(MaxRecord - 1) : Truncate(n)
    \/ \E i \in 0..(MaxRecord - 1), b \in 0..7 : FlipBit(i, b)

SpecSeg == InitSeg /\ [][NextSeg]_vars

-----------------------------------------------------------------------------
(* Package log on its own: a caller opens a directory, creates segments,   *)
(* appends, reads, seals and closes the segment it holds (NextLog); or it  *)
(* fills segments, one file is damaged once, and the directory is opened   *)
(* again (NextDir)                                                         *)

\* number of calls in a run of package log
MaxLogOps == 6

LogKeys == { KeyA, KeyB }
LogValues == { ValX }
LogIds == { 2, 10 }
LogCuts == { 1, 17 }
LogFlips == { 0, 16 }

\* no segment is held yet
NoLog ==
    [id |-> 0, dir |-> DEFAULT_DB_PATH, writePos |-> 0, readOnly |-> FALSE,
     closed |-> FALSE]

\* before the first call: the directory is missing, or exists and is empty
InitLog ==
    /\ path = DEFAULT_DB_PATH
    /\ disk \in { << >>, MkdirAll(<< >>, DEFAULT_DB_PATH) }
    /\ activeLog = NoLog
    /\ logs = << >>
    /\ keyDir = << >>
    /\ up = FALSE
    /\ hist = << >>

\* the segment held was damaged after its handle was made
Stale ==
    \E i \in 1..Len(hist) :
        /\ hist[i].op \in { "Truncate", "Flip" }
        /\ \A j \in (i + 1)..Len(hist) : hist[j].op \notin { "Open", "New" }

\* log.Open(path); n is the number of segment files it found
LogOpen ==
    \E o \in { Open(disk, path) } :
        /\ disk' = o.disk
        /\ activeLog' = o.active
        /\ logs' = o.logs
        /\ keyDir' = o.index
        /\ hist' = Append(hist, Call("Open", << >>, << >>, o.err, path, NoPosition, 0,
                                     IF path \in DOMAIN disk
                                     THEN Cardinality(DOMAIN disk[path]) ELSE 0))
        /\ UNCHANGED << path, up >>

\* log.New(id, path); the caller drops the segment it held
LogNewCall(id) ==
    /\ disk' = CreateFile(disk, id, path)
    /\ activeLog' = LogNew(disk, id, path)
    /\ hist' = Append(hist, Call("New", << >>, << >>, ErrNone, path, NoPosition, 0, id))
    /\ UNCHANGED << path, up, logs, keyDir >>

LogAppendCall(key, val, now) ==
    /\ activeLog # NoLog
    /\ ~Stale
    /\ \E a \in { LogAppend(disk, activeLog, key, val, now) } :
        /\ disk' = a.disk
        /\ activeLog' = a.lf
        /\ hist' = Append(hist, Call("Append", key, val, a.err, activeLog.dir, a.pos,
                                     now, 0))
    /\ UNCHANGED << path, up, logs, keyDir >>

LogReadAt(pos) ==
    /\ activeLog # NoLog
    /\ ReadAt(disk, activeLog, pos).err \in { ErrNone, ErrLogClosed, ErrPartialWrite,
                                              ErrCorruptRecord, ErrEmptyKey, ErrEOF }
    /\ UNCHANGED vars

LogMarkReadOnly ==
    /\ activeLog # NoLog
    /\ ~activeLog.readOnly
    /\ activeLog' = MarkReadOnly(activeLog)
    /\ hist' = Append(hist, Call("MarkReadOnly", << >>, << >>, ErrNone, activeLog.dir,
                                 NoPosition, 0, 0))
    /\ UNCHANGED << disk, path, up, logs, keyDir >>

LogClose ==
    \E c \in { Close(activeLog) } :
        /\ activeLog # NoLog
        /\ activeLog' = c.lf
        /\ hist' = Append(hist, Call("Close", << >>, << >>, c.err, activeLog.dir,
                                     NoPosition, 0, 0))
        /\ UNCHANGED << disk, path, up, logs, keyDir >>

\* the positions of the appends made so far
Appended ==
    { hist[i].pos : i \in { j \in 1..Len(hist) : hist[j].op = "Append" } }

NextLog ==
    \/ Len(hist) < MaxLogOps /\ LogOpen
    \/ \E id \in LogIds :
        Len(hist) < MaxLogOps /\ LogNewCall(id)
    \/ \E k \in LogKeys, v \in LogValues, now \in StoreClock :
        Len(hist) < MaxLogOps /\ LogAppendCall(k, v, now)
    \/ \E pos \in Appended :
        Len(hist) < MaxLogOps /\ LogReadAt(pos)
    \/ Len(hist) < MaxLogOps /\ LogMarkReadOnly
    \/ Len(hist) < MaxLogOps /\ LogClose

SpecLog == InitLog /\ [][NextLog]_vars

\* number of calls in a run that damages a segment file of the directory
MaxDirOps == 7

\* segments are created and appended to, one file is damaged, the directory is
\* opened
NextDir ==
    \/ Len(hist) < MaxDirOps /\ LogOpen
    \/ \E id \in LogIds :
        Len(hist) < MaxDirOps /\ LogNewCall(id)
    \/ \E k \in LogKeys, v \in LogValues, now \in StoreClock :
        Len(hist) < MaxDirOps /\ LogAppendCall(k, v, now)
    \/ \E n \in LogCuts :
        Len(hist) < MaxDirOps /\ Truncate(n)
    \/ \E i \in LogFlips :
        Len(hist) < MaxDirOps /\ FlipBit(i, 0)

SpecDir == InitLog /\ [][NextDir]_vars

-----------------------------------------------------------------------------
(* Compaction and its recovery at startup                                  *)

MarkerName == "COMPACTING"
TmpName == "compact.tmp"

\* the two files of a compaction, next to the segments of the store directory
MarkerFile(dir) == dir \o "/" \o MarkerName
TmpFile(dir) == dir \o "/" \o TmpName

\* the id of the segment the compacted file becomes
CompactedID == 1

\* the keys of the index snapshot, in one fixed order (by first byte)
RECURSIVE LiveKeys(_)
LiveKeys(idx) ==
    IF DOMAIN idx = {} THEN << >>
    ELSE The({ << k >> \o LiveKeys(IndexDelete(idx, k)) :
               k \in { j \in DOMAIN idx : \A i \in DOMAIN idx : j[1] <= i[1] } })

\* step 4: each live value is read through its index entry and appended to the
\* temporary segment; the new position of each key is recorded
RECURSIVE CopyLive(_, _, _, _)
CopyLive(st, keys, now, offset) ==
    IF keys = << >> THEN << >>
    ELSE The({ The({ << [key |-> Head(keys), buf |-> buf,
                         pos |-> NewLogPosition(CompactedID, Len(v), LE32(now), offset)] >>
                     \o CopyLive(st, Tail(keys), now, offset + Len(buf)) :
                     buf \in { Encode(Head(keys), v, now) } }) :
               v \in { Get(st, Head(keys)).val } })

\* the ids of the segment files of dir
SegmentIds(dsk, dir) ==
    DOMAIN dsk[dir]

\* ids as a sequence in ascending order
RECURSIVE Ascending(_)
Ascending(ids) ==
    IF ids = {} THEN << >>
    ELSE The({ << m >> \o Ascending(ids \ { m }) :
               m \in { i \in ids : \A j \in ids : i <= j } })

DeleteOld(ids) ==
    [i \in 1..Len(Ascending(ids \ { CompactedID })) |->
        [op |-> "delete", id |-> Ascending(ids \ { CompactedID })[i]]]

\* an install that deletes the old segment files before the rename
InstallDeletesFirst(ids) ==
    DeleteOld(ids) \o << [op |-> "rename"], [op |-> "unmark"] >>

\* step 6 on disk: rename the temporary file into place, delete the old segment
\* files, delete the marker
InstallSteps(ids) ==
    << [op |-> "rename"] >> \o DeleteOld(ids) \o << [op |-> "unmark"] >>

\* the file operations of Compact, in order: marker (3), copies (4), flush (5),
\* install (6)
CompactPlan(st, dir, now) ==
    The({ << [op |-> "mark", ids |-> SegmentIds(st.disk, dir)] >>
          \o [i \in DOMAIN copies |-> [op |-> "append", buf |-> copies[i].buf]]
          \o << [op |-> "sync"] >>
          \o InstallSteps(SegmentIds(st.disk, dir)) :
          copies \in { CopyLive(st, LiveKeys(st.keyDir), now, 0) } })

NoTmp == [bytes |-> << >>, synced |-> FALSE]

TmpOf(dsk, dir) ==
    IF TmpFile(dir) \in DOMAIN dsk THEN dsk[TmpFile(dir)] ELSE NoTmp

Remove(dsk, name) ==
    [n \in DOMAIN dsk \ { name } |-> dsk[n]]

\* one file operation on the directory tree
FileStep(dsk, dir, s) ==
    IF s.op = "mark"
    THEN (MarkerFile(dir) :> [retiring |-> s.ids, name |-> TmpName]) @@ dsk
    ELSE IF s.op = "append"
    THEN (TmpFile(dir) :> [bytes |-> TmpOf(dsk, dir).bytes \o s.buf, synced |-> FALSE]) @@ dsk
    ELSE IF s.op = "sync"
    THEN (TmpFile(dir) :> [bytes |-> TmpOf(dsk, dir).bytes, synced |-> TRUE]) @@ dsk
    ELSE IF s.op = "rename"
    THEN [Remove(dsk, TmpFile(dir)) EXCEPT
            ![dir] = (CompactedID :> TmpOf(dsk, dir).bytes) @@ @]
    ELSE IF s.op = "delete"
    THEN [dsk EXCEPT ![dir] = [i \in DOMAIN @ \ { s.id } |-> @[i]]]
    ELSE IF s.op = "unmark"
    THEN Remove(dsk, MarkerFile(dir))
    ELSE Remove(dsk, TmpFile(dir))

\* the directory tree after the first n operations of plan
RECURSIVE FileSteps(_, _, _, _)
FileSteps(dsk, dir, plan, n) ==
    IF n = 0 \/ plan = << >> THEN dsk
    ELSE FileSteps(FileStep(dsk, dir, Head(plan)), dir, Tail(plan), n - 1)

\* every live value can be read
Readable(st) ==
    \A k \in DOMAIN st.keyDir : Get(st, k).err = ErrNone

\* Compact: the store after the whole algorithm; one active segment, the index
\* replaced by the new positions
Compact(st, dir, now) ==
    IF ~Readable(st)
    THEN [err |-> "ErrCompaction", st |-> st]
    ELSE The({ [err |-> ErrNone,
                st |-> [activeLog |-> [id |-> CompactedID, dir |-> dir,
                                       writePos |-> Len(d[dir][CompactedID]),
                                       readOnly |-> FALSE, closed |-> FALSE],
                        logs |-> << >>,
                        keyDir |-> [k \in DOMAIN st.keyDir |->
                                      The({ c.pos : c \in { e \in { copies[i] : i \in DOMAIN copies } :
                                                            e.key = k } })],
                        disk |-> d]] :
               copies \in { CopyLive(st, LiveKeys(st.keyDir), now, 0) },
               d \in { The({ FileSteps(st.disk, dir, plan, Len(plan)) :
                             plan \in { CompactPlan(st, dir, now) } }) } })

\* recovery at startup, before the segments are opened: the file operations
\* that the marker and the temporary file call for
RecoverPlan(dsk, dir) ==
    IF MarkerFile(dir) \in DOMAIN dsk
    THEN IF TmpFile(dir) \in DOMAIN dsk /\ TmpOf(dsk, dir).synced
         THEN InstallSteps(dsk[MarkerFile(dir)].retiring \cap SegmentIds(dsk, dir))
         ELSE IF TmpFile(dir) \in DOMAIN dsk
         THEN << [op |-> "rmtmp"], [op |-> "unmark"] >>
         ELSE << [op |-> "unmark"] >>
    ELSE IF TmpFile(dir) \in DOMAIN dsk
    THEN << [op |-> "rmtmp"] >>
    ELSE << >>

Recover(dsk, dir) ==
    FileSteps(dsk, dir, RecoverPlan(dsk, dir), Len(RecoverPlan(dsk, dir)))

\* the store before the compaction runs: the writes of script applied in order
RECURSIVE Load(_, _, _)
Load(st, h, script) ==
    IF script = << >> THEN [st |-> st, hist |-> h]
    ELSE The({ Load(r.st,
                    Append(h, Call(Head(script).op, Head(script).key, Head(script).val,
                                   r.err, r.st.activeLog.dir, r.pos, Head(script).now, 0)),
                    Tail(script)) :
               r \in { IF Head(script).op = "Put"
                       THEN Put(st, Head(script).key, Head(script).val, Head(script).now)
                       ELSE Del(st, Head(script).key, Head(script).now) } })

\* k1 = v1 overwritten by k1 = v2, k2 written and deleted, k3 = v3
Script(v1, v2, w, v3, now) ==
    << [op |-> "Put", key |-> KeyA, val |-> v1, now |-> now],
       [op |-> "Put", key |-> KeyA, val |-> v2, now |-> now],
       [op |-> "Put", key |-> KeyB, val |-> w, now |-> now],
       [op |-> "Del", key |-> KeyB, val |-> << >>, now |-> now],
       [op |-> "Put", key |-> KeyC, val |-> v3, now |-> now] >>

\* number of calls in a run with compactions
MaxCompactOps == 8

CompactKeys == { KeyA, KeyB, KeyC }
CompactValues == { ValY }

InitCompact ==
    /\ path = DEFAULT_DB_PATH
    /\ up = TRUE
    /\ \E v1 \in { ValY, Big }, w \in { ValX, Big } :
        \E l \in { Load(New([d \in Paths |-> << >>], DEFAULT_DB_PATH), << >>,
                        Script(v1, ValX, w, ValZ, CustomEpoch + 77)) } :
            /\ disk = l.st.disk
            /\ activeLog = l.st.activeLog
            /\ logs = l.st.logs
            /\ keyDir = l.st.keyDir
            /\ hist = l.hist

DoCompact(now) ==
    /\ up
    /\ \E r \in { Compact(St, path, now) } :
        /\ Install(r.st)
        /\ hist' = Append(hist, Call("Compact", << >>, << >>, r.err, path, NoPosition, now, 0))
    /\ UNCHANGED << path, up >>

\* the process dies inside Compact between two of its file operations
CrashInCompact(now) ==
    /\ up
    /\ Readable(St)
    /\ \E plan \in { CompactPlan(St, path, now) } :
        \E n \in 1..(Len(plan) - 1) :
            /\ disk' = FileSteps(disk, path, plan, n)
            /\ hist' = Append(hist, Call("CompactCrash", << >>, << >>, ErrNone, path,
                                         NoPosition, now, n))
    /\ up' = FALSE
    /\ UNCHANGED << path, activeLog, logs, keyDir >>

\* the process dies inside the recovery between two of its file operations
CrashInRecover ==
    /\ ~up
    /\ \E plan \in { RecoverPlan(disk, path) } :
        \E n \in 1..(Len(plan) - 1) :
            /\ disk' = FileSteps(disk, path, plan, n)
            /\ hist' = Append(hist, Call("RecoverCrash", << >>, << >>, ErrNone, path,
                                         NoPosition, 0, n))
    /\ UNCHANGED << path, up, activeLog, logs, keyDir >>

\* the store is started again: recovery, then kv.New(path)
Start ==
    /\ ~up
    /\ Restart(Recover(disk, path), "Start", << >>, << >>, 0, 0)

NextCompact ==
    \/ \E k \in CompactKeys, v \in CompactValues, now \in StoreClock :
        Len(hist) < MaxCompactOps /\ DoPut(k, v, now)
    \/ \E k \in CompactKeys, now \in StoreClock :
        Len(hist) < MaxCompactOps /\ DoDel(k, now)
    \/ \E now \in StoreClock :
        Len(hist) < MaxCompactOps /\ DoCompact(now)
    \/ \E now \in StoreClock :
        Len(hist) < MaxCompactOps /\ CrashInCompact(now)
    \/ Len(hist) < MaxCompactOps /\ CrashInRecover
    \/ Len(hist) < MaxCompactOps /\ Start

SpecCompact == InitCompact /\ [][NextCompact]_vars

-----------------------------------------------------------------------------
(* Concurrent Puts.  The kv struct holds no lock, so the statements of      *)
(* kv.Put and logFile.Append run by two goroutines interleave.  hist        *)
(* holds one entry per call: the statement it has reached (pc), the         *)
(* logFile it appends to (log, m.activeLog as read on entry) and Append's   *)
(* locals.  rotateActiveLog runs as one step.                               *)

\* number of Put calls, each on a goroutine of its own
MaxCalls == 2

ConcKeys == { KeyA, KeyB }
ConcValues == { ValX, Big }

\* the Go runtime's fatal error on two overlapping map assignments
ErrConcurrentMapWrites == "fatal error: concurrent map writes"

\* a call that has entered Put and evaluated m.activeLog
Entered(key, data, now) ==
    [op |-> "Put", key |-> key, val |-> data, now |-> now, err |-> ErrNone,
     pc |-> "Append", log |-> activeLog.id, start |-> 0, at |-> 0, n |-> 0,
     loaded |-> 0, pos |-> NoPosition]

\* the logFile a call holds: the active one, or one sealed since the call began
TheLog(id) ==
    IF id = activeLog.id THEN activeLog ELSE logs[id]

\* an assignment to d.writePos
SetWritePos(id, v) ==
    IF id = activeLog.id
    THEN activeLog' = [activeLog EXCEPT !.writePos = v] /\ logs' = logs
    ELSE logs' = [logs EXCEPT ![id].writePos = v] /\ activeLog' = activeLog

Returns(i, err) ==
    hist' = [hist EXCEPT ![i].pc = "Done", ![i].err = err]

\* go m.Put(key, data)
GoPut(key, data, now) ==
    /\ up
    /\ hist' = Append(hist, Entered(key, data, now))
    /\ UNCHANGED << disk, path, up, activeLog, logs, keyDir >>

\* Append up to the capacity check: readOnly, start := d.writePos,
\* isCapacityExceeded
AppendCheck(i) ==
    /\ up
    /\ hist[i].pc = "Append"
    /\ \E d \in { TheLog(hist[i].log) } :
        IF d.readOnly THEN Returns(i, ErrReadOnlySegment)
        ELSE hist' = [hist EXCEPT ![i].start = d.writePos,
                                  ![i].pc = IF isCapacityExceeded(d, hist[i].key,
                                                                  hist[i].val)
                                            THEN "Rotate" ELSE "WriteAt"]
    /\ UNCHANGED << disk, path, up, activeLog, logs, keyDir >>

\* n, err := d.file.WriteAt(buf, d.writePos)
AppendWriteAt(i) ==
    /\ up
    /\ hist[i].pc = "WriteAt"
    /\ \E d \in { TheLog(hist[i].log) } :
        IF d.closed
        THEN Returns(i, ErrFileClosed) /\ disk' = disk
        ELSE \E buf \in { Encode(hist[i].key, hist[i].val, hist[i].now) } :
               /\ disk' = [disk EXCEPT ![d.dir][d.id] = WriteAt(@, buf, d.writePos)]
               /\ hist' = [hist EXCEPT ![i].at = d.writePos, ![i].n = Len(buf),
                                       ![i].pc = "Sync"]
    /\ UNCHANGED << path, up, activeLog, logs, keyDir >>

\* d.file.Sync()
AppendSync(i) ==
    /\ up
    /\ hist[i].pc = "Sync"
    /\ hist' = [hist EXCEPT ![i].pc = "Load"]
    /\ UNCHANGED << disk, path, up, activeLog, logs, keyDir >>

\* d.writePos += int64(n), the read of d.writePos
AppendLoad(i) ==
    /\ up
    /\ hist[i].pc = "Load"
    /\ hist' = [hist EXCEPT ![i].loaded = TheLog(hist[i].log).writePos,
                            ![i].pc = "Store"]
    /\ UNCHANGED << disk, path, up, activeLog, logs, keyDir >>

\* d.writePos += int64(n), the write of d.writePos; Append returns the position
\* built from start
AppendStore(i) ==
    /\ up
    /\ hist[i].pc = "Store"
    /\ SetWritePos(hist[i].log, hist[i].loaded + hist[i].n)
    /\ hist' = [hist EXCEPT ![i].pos = NewLogPosition(hist[i].log, Len(hist[i].val),
                                                      LE32(hist[i].now),
                                                      hist[i].start),
                            ![i].pc = "Index"]
    /\ UNCHANGED << disk, path, up, keyDir >>

\* Put on ErrCapacityExceeded: m.rotateActiveLog(key, data)
PutRotate(i) ==
    /\ up
    /\ hist[i].pc = "Rotate"
    /\ \E r \in { rotateActiveLog(St, hist[i].key, hist[i].val, hist[i].now) } :
        /\ disk' = r.st.disk
        /\ activeLog' = r.st.activeLog
        /\ logs' = r.st.logs
        /\ IF r.err # ErrNone THEN Returns(i, r.err)
           ELSE hist' = [hist EXCEPT ![i].log = r.pos.FileID, ![i].at = r.pos.ValuePos,
                                     ![i].pos = r.pos, ![i].pc = "Index"]
    /\ UNCHANGED << path, up, keyDir >>

\* m.keyDir[string(key)] = pos
PutIndex(i) ==
    /\ up
    /\ hist[i].pc = "Index"
    /\ keyDir' = IndexSet(keyDir, hist[i].key, hist[i].pos)
    /\ Returns(i, ErrNone)
    /\ UNCHANGED << disk, path, up, activeLog, logs >>

\* m.keyDir[string(key)] = pos while another goroutine is in the same
\* assignment: the runtime may end the process
PutIndexFatal(i) ==
    /\ up
    /\ hist[i].pc = "Index"
    /\ \E j \in 1..Len(hist) : j # i /\ hist[j].pc = "Index"
    /\ up' = FALSE
    /\ Returns(i, ErrConcurrentMapWrites)
    /\ UNCHANGED << disk, path, activeLog, logs, keyDir >>

NextConc ==
    \/ \E k \in ConcKeys, v \in ConcValues, now \in StoreClock :
        Len(hist) < MaxCalls /\ GoPut(k, v, now)
    \/ \E i \in 1..Len(hist) : Len(hist) <= MaxCalls /\ AppendCheck(i)
    \/ \E i \in 1..Len(hist) : Len(hist) <= MaxCalls /\ AppendWriteAt(i)
    \/ \E i \in 1..Len(hist) : Len(hist) <= MaxCalls /\ AppendSync(i)
    \/ \E i \in 1..Len(hist) : Len(hist) <= MaxCalls /\ AppendLoad(i)
    \/ \E i \in 1..Len(hist) : Len(hist) <= MaxCalls /\ AppendStore(i)
    \/ \E i \in 1..Len(hist) : Len(hist) <= MaxCalls /\ PutRotate(i)
    \/ \E i \in 1..Len(hist) : Len(hist) <= MaxCalls /\ PutIndex(i)
    \/ \E i \in 1..Len(hist) : Len(hist) <= MaxCalls /\ PutIndexFatal(i)

SpecConc == Init /\ [][NextConc]_vars

-----------------------------------------------------------------------------
(* What the history says                                                   *)

Last(h) ==
    h[Len(h)]

Front(h) ==
    SubSeq(h, 1, Len(h) - 1)

Max(S) ==
    CHOOSE x \in S : \A y \in S : y <= x

\* the history is a sequence of successful Put and Del calls
OnlyWrites(h) ==
    \A i \in 1..Len(h) : h[i].op \in { "Put", "Del" } /\ h[i].err = ErrNone

\* the index of the last restart (0: the store of Init is still running)
SessionStart(h) ==
    Max({0} \cup { i \in 1..Len(h) : h[i].op \in { "Reopen", "Crash" } })

\* the index of the call that made the segment handle held now (0: none yet)
HandleStart(h) ==
    Max({0} \cup { i \in 1..Len(h) : h[i].op \in { "Open", "New" } })

\* the index of the last successful Put or Del of key after index from (0: none)
LastWrite(h, key, from) ==
    Max({0} \cup { i \in (from + 1)..Len(h) :
                     /\ h[i].op \in { "Put", "Del" }
                     /\ h[i].key = key
                     /\ h[i].err = ErrNone })

NotFound ==
    [err |-> ErrKeyNotFound, val |-> << >>]

Found(val) ==
    [err |-> ErrNone, val |-> val]

\* what Get(key) owes after the successful writes of h
Committed(h, key) ==
    IF LastWrite(h, key, 0) = 0 THEN NotFound
    ELSE IF h[LastWrite(h, key, 0)].op = "Del" THEN NotFound
    ELSE Found(h[LastWrite(h, key, 0)].val)

-----------------------------------------------------------------------------
(* Claims                                                                  *)

\* C1: after any sequence of successful Put and Del calls, closing the store and
\* opening it again on the same path succeeds and leaves Get(k) unchanged for
\* every key k: the same value for a live key, ErrKeyNotFound otherwise.
C1_ReopenEquivalence ==
    [][(/\ hist' # hist
        /\ Last(hist').op = "Reopen"
        /\ OnlyWrites(hist))
       => (/\ up'
           /\ \A k \in SeqKeys : Get(St', k) = Get(St, k))]_vars

\* C2: after Put(k,v1), Put(k,v2), Del(k), Put(k,v3) and a reopen, the index
\* entry of k points at the record of v3, the last record of k in the segment.
C2_RebuildLastRecordWins ==
    \A k \in SeqKeys :
        (/\ Len(hist) = 5
         /\ \A i \in 1..4 : hist[i].key = k /\ hist[i].err = ErrNone
         /\ hist[1].op = "Put" /\ hist[2].op = "Put"
         /\ hist[3].op = "Del" /\ hist[4].op = "Put"
         /\ hist[5].op = "Reopen")
        => (/\ up
            /\ k \in DOMAIN keyDir
            /\ keyDir[k].FileID = hist[4].pos.FileID
            /\ keyDir[k].ValuePos = hist[4].pos.ValuePos)

\* C3: a crash in the middle of an append loses no committed record: after the
\* restart recovery has succeeded, a key whose last committed record is a put
\* is served with that value, and a key whose last committed record is a
\* tombstone, or that was never written, is not found.
C3_NoCommittedRecordLost ==
    (/\ hist # << >>
     /\ Last(hist).op = "Crash"
     /\ OnlyWrites(Front(hist)))
    => (/\ up
        /\ \A k \in SeqKeys : Get(St, k) = Committed(Front(hist), k))

\* C4: the bytes of a committed record are never modified: every record a
\* successful Put or Del appended is still in its file at its offset.
C4_CommittedBytesImmutable ==
    \A i \in 1..Len(hist) :
        (hist[i].op \in { "Put", "Del" } /\ hist[i].err = ErrNone)
        => (/\ hist[i].pos.FileID \in DOMAIN disk[hist[i].dir]
            /\ Slice(disk[hist[i].dir][hist[i].pos.FileID], hist[i].pos.ValuePos,
                     Len(Encode(hist[i].key, hist[i].val, hist[i].now)))
                 = Encode(hist[i].key, hist[i].val, hist[i].now))

\* C5: in one session, after Put(k, v) returned success for a non-empty key and
\* a non-empty value, Get(k) returns v, also when the record of v has been
\* rotated into a sealed segment, until the next write of k.
C5_ReadYourWrites ==
    up => \A k \in Keys \ { EmptyKey } :
            (/\ LastWrite(hist, k, SessionStart(hist)) > 0
             /\ hist[LastWrite(hist, k, SessionStart(hist))].op = "Put"
             /\ hist[LastWrite(hist, k, SessionStart(hist))].val # NoValue)
            => Get(St, k) = Found(hist[LastWrite(hist, k, SessionStart(hist))].val)

\* a key written with a short value sits in a sealed segment and is read back
C5_Witness ==
    /\ up
    /\ KeyA \in DOMAIN keyDir
    /\ keyDir[KeyA].FileID \in DOMAIN logs
    /\ LastWrite(hist, KeyA, SessionStart(hist)) > 0
    /\ hist[LastWrite(hist, KeyA, SessionStart(hist))].val = ValX
    /\ Get(St, KeyA) = Found(ValX)

\* C6: in one session, once Del(k) has returned success, Get(k) and a further
\* Del(k) return ErrKeyNotFound until a later successful Put(k, v); after that
\* Put a non-empty key k is live again with value v.
C6_DelTakesEffect ==
    up => \A k \in Keys :
            /\ (/\ LastWrite(hist, k, SessionStart(hist)) > 0
                /\ hist[LastWrite(hist, k, SessionStart(hist))].op = "Del")
               => /\ Get(St, k) = NotFound
                  /\ \A now \in StoreClock : Del(St, k, now).err = ErrKeyNotFound
            /\ (/\ k # EmptyKey
                /\ LastWrite(hist, k, SessionStart(hist)) > 1
                /\ hist[LastWrite(hist, k, SessionStart(hist))].op = "Put"
                /\ \E j \in (SessionStart(hist) + 1)..Len(hist) :
                     /\ j < LastWrite(hist, k, SessionStart(hist))
                     /\ hist[j].op = "Del" /\ hist[j].key = k /\ hist[j].err = ErrNone)
               => Get(St, k) = Found(hist[LastWrite(hist, k, SessionStart(hist))].val)

\* a key has been put, deleted and put again, and is read back
C6_Witness ==
    /\ up
    /\ Len(hist) = 3
    /\ hist[1].op = "Put" /\ hist[1].key = KeyA /\ hist[1].err = ErrNone
    /\ hist[2].op = "Del" /\ hist[2].key = KeyA /\ hist[2].err = ErrNone
    /\ hist[3].op = "Put" /\ hist[3].key = KeyA /\ hist[3].err = ErrNone
    /\ hist[3].val = ValX
    /\ Get(St, KeyA) = Found(ValX)

C8_BitFlipDetected ==
    (hist # << >> /\ Last(hist).op = "Flip")
    => Decode(FileOf(disk, activeLog), Last(hist).pos.ValuePos).err = ErrCorruptRecord

\* C9: after the last record of a segment loses its last n bytes, 1 <= n < its
\* size, decoding it at its offset returns ErrPartialWrite, and ReadAt at its
\* position returns that error and no data.
C9_TruncatedTailIsPartialWrite ==
    (hist # << >> /\ Last(hist).op = "Truncate")
    => /\ Decode(FileOf(disk, activeLog), Last(hist).pos.ValuePos).err = ErrPartialWrite
       /\ ReadAt(disk, activeLog, Last(hist).pos)
            = [err |-> ErrPartialWrite, val |-> << >>]

\* the second record of the segment has lost its value and part of its key, the
\* header is whole
C9_Witness ==
    /\ Len(hist) = 3
    /\ Last(hist).op = "Truncate"
    /\ Last(hist).key = KeyB
    /\ Last(hist).val = ValX
    /\ Last(hist).n = 2
    /\ Last(hist).pos.ValuePos > 0
    /\ Decode(FileOf(disk, activeLog), Last(hist).pos.ValuePos).err = ErrPartialWrite

\* C10: decoding the bytes Encode produced for a non-empty key, at the offset
\* they were written at, succeeds and returns the key and the value, their
\* lengths as KeySize and ValueSize, the crc GenerateCRC computes over these
\* four (the same at every timestamp), and the offset after the record.
C10_CodecRoundTrip ==
    ~Damaged =>
        \A i \in 1..Len(hist) :
            \E d \in { Decode(FileOf(disk, activeLog), hist[i].pos.ValuePos) } :
                /\ hist[i].err = ErrNone
                /\ d.err = ErrNone
                /\ d.rec.Key = hist[i].key
                /\ d.rec.Value = hist[i].val
                /\ d.rec.KeySize = LE32(Len(hist[i].key))
                /\ d.rec.ValueSize = LE32(Len(hist[i].val))
                /\ d.rec.Crc = GenerateCRCBytes(d.rec.KeySize, d.rec.ValueSize,
                                                hist[i].key, hist[i].val)
                /\ \A now \in Clock :
                     d.rec.Crc = SubSeq(Encode(hist[i].key, hist[i].val, now), 1, 4)
                /\ d.next = hist[i].pos.ValuePos
                              + Len(Encode(hist[i].key, hist[i].val, hist[i].now))

\* two records written at different times are both decoded
C10_Witness ==
    /\ Len(hist) = 2
    /\ ~Damaged
    /\ hist[1].now # hist[2].now
    /\ hist[2].key = KeyB
    /\ hist[2].val = ValX
    /\ Decode(FileOf(disk, activeLog), hist[2].pos.ValuePos).rec.Value = ValX

\* C13: Append on a writable segment returns ErrCapacityExceeded exactly when
\* writePos + 16 + |key| + |val| > MaxDataFileSize (a record that ends exactly
\* at MaxDataFileSize is accepted), and a rejected append leaves the file, its
\* size and writePos unchanged.
C13_CapacityCheck ==
    \A k \in Keys, v \in Values, now \in StoreClock :
        \E a \in { LogAppend(disk, activeLog, k, v, now) } :
            (~activeLog.readOnly /\ ~activeLog.closed)
            => /\ (a.err = ErrCapacityExceeded)
                    <=> (activeLog.writePos + 16 + Len(k) + Len(v) > MaxDataFileSize)
               /\ (a.err = ErrCapacityExceeded)
                    => (a.disk = disk /\ a.lf = activeLog /\ a.pos = NoPosition)
               /\ (a.err # ErrCapacityExceeded) => a.err = ErrNone

\* an append has filled the active segment exactly to the limit, and the next
\* one is rejected
C13_Witness ==
    /\ up
    /\ activeLog.writePos = MaxDataFileSize
    /\ Len(FileOf(disk, activeLog)) = MaxDataFileSize
    /\ Last(hist).err = ErrNone
    /\ Last(hist).pos.ValuePos + 16 + Len(Last(hist).key) + Len(Last(hist).val)
         = MaxDataFileSize
    /\ LogAppend(disk, activeLog, KeyA, ValX, CustomEpoch + 77).err = ErrCapacityExceeded

\* C14: after any sequence of appends to a segment, accepted or rejected, and
\* after any reopen and further appends, the size of the segment's file never
\* exceeds MaxDataFileSize.
C14_FileSizeBounded ==
    \A d \in Paths : \A id \in DOMAIN disk[d] : Len(disk[d][id]) <= MaxDataFileSize

\* a segment was filled, the store was reopened, and the next append was rejected
\* by the reopened segment and accepted by a new one
C14_Witness ==
    /\ up
    /\ Len(hist) = 3
    /\ hist[1].op = "Put" /\ hist[1].err = ErrNone /\ hist[1].val = Big
    /\ hist[2].op = "Reopen" /\ hist[2].err = ErrNone
    /\ hist[3].op = "Put" /\ hist[3].err = ErrNone /\ hist[3].val = Big
    /\ hist[3].pos.FileID = 2
    /\ Len(disk[path][1]) = HeaderSize + Len(hist[1].key) + BigLen
    /\ Len(disk[path][1]) + Len(Encode(hist[3].key, Big, hist[3].now)) > MaxDataFileSize

\* C15: once MarkReadOnly has been called on a segment, every later Append
\* returns ErrReadOnlySegment with the zero LogPosition and writes nothing, for
\* any key and value and however often it is retried, while ReadAt of the
\* positions appended earlier still returns their values.
C15_SealedSegmentRejectsAppends ==
    \A i \in (HandleStart(hist) + 1)..Len(hist) :
        hist[i].op = "MarkReadOnly"
        => /\ activeLog.readOnly
           /\ \A j \in (i + 1)..Len(hist) :
                hist[j].op = "Append"
                => hist[j].err = ErrReadOnlySegment /\ hist[j].pos = NoPosition
           /\ \A k \in AllKeys, v \in AllValues, now \in Clock :
                LogAppend(disk, activeLog, k, v, now)
                  = [err |-> ErrReadOnlySegment, pos |-> NoPosition,
                     lf |-> activeLog, disk |-> disk]
           /\ ~activeLog.closed
                => \A j \in (HandleStart(hist) + 1)..(i - 1) :
                     (hist[j].op = "Append" /\ hist[j].err = ErrNone)
                     => ReadAt(disk, activeLog, hist[j].pos)
                          = [err |-> ErrNone, val |-> hist[j].val]

\* a record was appended, the segment was sealed, two appends were rejected
C15_Witness ==
    /\ Len(hist) >= 4
    /\ HandleStart(hist) < Len(hist) - 3
    /\ hist[Len(hist) - 3].op = "Append" /\ hist[Len(hist) - 3].err = ErrNone
    /\ hist[Len(hist) - 2].op = "MarkReadOnly"
    /\ hist[Len(hist) - 1].op = "Append"
    /\ hist[Len(hist) - 1].err = ErrReadOnlySegment
    /\ Last(hist).op = "Append" /\ Last(hist).err = ErrReadOnlySegment
    /\ ~activeLog.closed
    /\ ReadAt(disk, activeLog, hist[Len(hist) - 3].pos).val = hist[Len(hist) - 3].val

\* C16: after Close on a segment, ReadAt returns ErrLogClosed and no data for
\* every position, including positions that were readable before the close.
C16_ReadAtAfterClose ==
    \A i \in (HandleStart(hist) + 1)..Len(hist) :
        hist[i].op = "Close"
        => /\ activeLog.closed
           /\ \A pos \in Appended \cup { NoPosition } :
                ReadAt(disk, activeLog, pos) = [err |-> ErrLogClosed, val |-> << >>]

\* a record was appended and the segment closed; the record is still in the file
C16_Witness ==
    /\ Len(hist) >= 2
    /\ HandleStart(hist) < Len(hist) - 1
    /\ hist[Len(hist) - 1].op = "Append" /\ hist[Len(hist) - 1].err = ErrNone
    /\ Last(hist).op = "Close" /\ Last(hist).err = ErrNone
    /\ Decode(FileOf(disk, activeLog), hist[Len(hist) - 1].pos.ValuePos).rec.Value
         = hist[Len(hist) - 1].val
    /\ ReadAt(disk, activeLog, hist[Len(hist) - 1].pos).err = ErrLogClosed

\* C17: Close on a segment is idempotent: a second Close leaves the segment in
\* the same closed state as the first and reports no error.
C17_CloseIdempotent ==
    \A i \in (HandleStart(hist) + 1)..Len(hist) :
        hist[i].op = "Close" => (activeLog.closed /\ hist[i].err = ErrNone)

\* C18: log.Open on a directory that does not exist or holds no *.data file
\* creates the directory if needed, creates segment 1.data, and returns it as the
\* active segment together with an empty sealed map and an empty index.
C18_OpenEmptyDirectory ==
    [][ ( /\ Len(hist') = Len(hist) + 1
          /\ Last(hist').op = "Open"
          /\ (path \notin DOMAIN disk \/ DOMAIN disk[path] = {}) )
        => ( /\ Last(hist').err = ErrNone
             /\ path \in DOMAIN disk'
             /\ DOMAIN disk'[path] = { 1 }
             /\ disk'[path][1] = << >>
             /\ activeLog' = [id |-> 1, dir |-> path, writePos |-> 0,
                              readOnly |-> FALSE, closed |-> FALSE]
             /\ logs' = << >>
             /\ keyDir' = << >> ) ]_vars

\* Open has run on a directory in which it found no segment file
C18_Witness ==
    /\ hist # << >>
    /\ Last(hist).op = "Open" /\ Last(hist).n = 0 /\ Last(hist).err = ErrNone
    /\ activeLog.id = 1
    /\ DOMAIN disk[path] = { 1 }

\* C19: log.Open on a directory with segment files replays them in ascending
\* numeric id order and returns the segment with the highest numeric id as
\* active and every other segment in the sealed map under its id, for any set of
\* ids, whatever their digit counts.
C19_OpenNumericOrder ==
    (hist # << >> /\ Last(hist).op = "Open" /\ Last(hist).n > 0)
    => /\ Last(hist).err = ErrNone
       /\ \E files \in { SortStrings(DOMAIN disk[path]) } :
            \A i \in 1..Len(files) : \A j \in (i + 1)..Len(files) : files[i] < files[j]
       /\ activeLog.id = Max(DOMAIN disk[path])
       /\ DOMAIN logs = DOMAIN disk[path] \ { Max(DOMAIN disk[path]) }
       /\ \A id \in DOMAIN logs : logs[id].id = id

\* C20: in every reachable store state, right after kv.New on any directory and
\* after any sequence of Put and Del with rotations, exactly one segment is
\* writable, the active one, and every other segment the store holds is sealed:
\* its read-only flag is set, so an Append to it fails with ErrReadOnlySegment.
C20_OneWritableSegment ==
    up => /\ ~activeLog.readOnly
          /\ activeLog.id \notin DOMAIN logs
          /\ \A id \in DOMAIN logs :
                /\ logs[id].readOnly
                /\ \A k \in Keys, v \in Values, now \in StoreClock :
                     LogAppend(disk, logs[id], k, v, now).err = ErrReadOnlySegment

\* C11: when BuildIndex, run by log.Open, decodes a record whose CRC does not
\* match (ErrCorruptRecord), the rebuild returns that error and Open fails; it
\* does not continue past the record and does not silently stop.  Stated for a
\* corrupt record at the start of a segment file, which every rebuild decodes.
C11_CorruptRecordFailsOpen ==
    (hist # << >> /\ Last(hist).op = "Open")
    => \A i \in 1..Len(hist) :
         ( /\ hist[i].op = "Flip"
           /\ hist[i].pos.ValuePos = 0
           /\ Decode(disk[hist[i].dir][hist[i].pos.FileID], 0).err = ErrCorruptRecord )
         => Last(hist).err = ErrCorruptRecord

\* the directory tree without the record torn by the i-th call and what follows it
WithoutTornTail(i) ==
    [disk EXCEPT ![hist[i].dir][hist[i].pos.FileID] = SubSeq(@, 1, hist[i].pos.ValuePos)]

\* the i-th call tore a record which a rebuild of its segment meets and decodes
\* with ErrPartialWrite
MeetsTornRecord(i) ==
    /\ hist[i].op = "Truncate"
    /\ Decode(disk[hist[i].dir][hist[i].pos.FileID], hist[i].pos.ValuePos).err
         = ErrPartialWrite
    /\ ScanFrom(WithoutTornTail(i)[hist[i].dir][hist[i].pos.FileID],
                hist[i].pos.FileID, 0, << >>).offset = hist[i].pos.ValuePos

\* C12: when BuildIndex meets ErrPartialWrite in a segment, it stops scanning
\* that segment without an error and keeps the index entries of the records
\* before it, and log.Open goes on to scan the remaining segments and succeeds:
\* Open returns what it returns on the directory without the torn record.
C12_TornRecordEndsSegmentScan ==
    (hist # << >> /\ Last(hist).op = "Open")
    => \A i \in 1..Len(hist) :
         MeetsTornRecord(i)
         => \E o \in { Open(WithoutTornTail(i), path) } :
              /\ Last(hist).err = ErrNone
              /\ o.err = ErrNone
              /\ keyDir = o.index
              /\ activeLog = o.active
              /\ logs = o.logs

\* segment 1 holds a record and a torn record, segment 2 a record; Open has
\* indexed the record before the torn one and the record of segment 2
C12_Witness ==
    /\ hist # << >> /\ Last(hist).op = "Open" /\ Last(hist).err = ErrNone
    /\ \E i \in 1..Len(hist) :
         /\ MeetsTornRecord(i)
         /\ hist[i].pos.FileID = 1
         /\ hist[i].pos.ValuePos > 0
         /\ \E k \in DOMAIN keyDir : keyDir[k].FileID = 1 /\ keyDir[k].ValuePos = 0
         /\ \E k \in DOMAIN keyDir : keyDir[k].FileID = 2
         /\ activeLog.id = 2
         /\ activeLog.writePos = Len(disk[path][2])
         /\ logs[1].writePos = hist[i].pos.ValuePos

\* C21: Get(k) and Del(k) for a key absent from the index return ErrKeyNotFound
\* and leave the index, the segment set, every writePos and all file contents
\* unchanged (Del appends no tombstone).
C21_AbsentKeyChangesNothing ==
    up => \A k \in AllKeys \ DOMAIN keyDir :
            /\ Get(St, k) = [err |-> ErrKeyNotFound, val |-> << >>]
            /\ \A now \in StoreClock :
                 Del(St, k, now) = [err |-> ErrKeyNotFound, pos |-> NoPosition, st |-> St]

\* a key was put and deleted, so it is absent from a store that holds its records
C21_Witness ==
    /\ up
    /\ Len(hist) >= 2
    /\ hist[Len(hist) - 1].op = "Put" /\ hist[Len(hist) - 1].err = ErrNone
    /\ Last(hist).op = "Del" /\ Last(hist).err = ErrNone
    /\ Last(hist).key = hist[Len(hist) - 1].key
    /\ Last(hist).key \notin DOMAIN keyDir
    /\ activeLog.writePos > 0
    /\ Del(St, Last(hist).key, CustomEpoch + 77).err = ErrKeyNotFound

\* C22: Put with a zero-length key is rejected: it returns an error, writes no
\* bytes to the active segment, and adds no entry to the index, so a later Get of
\* the empty key returns ErrKeyNotFound.
C22_EmptyKeyPutRejected ==
    (up /\ hist # << >> /\ Last(hist).op = "Put" /\ Last(hist).key = EmptyKey)
    => /\ Last(hist).err # ErrNone
       /\ EmptyKey \notin DOMAIN keyDir
       /\ Get(St, EmptyKey).err = ErrKeyNotFound

\* the segment handle through which Get reads a position
HandleOf(pos) ==
    IF pos.FileID \in DOMAIN logs THEN logs[pos.FileID] ELSE activeLog

\* C27: in every reachable state each index entry refers to a segment the store
\* holds (the sealed map or the active segment), and decoding at ValuePos in that
\* segment yields a fully written, CRC-valid record whose key equals the index
\* key and whose value length equals ValueSize, for any sequence of Put and Del
\* with arbitrary keys and values, zero-length ones included.
C27_IndexEntriesValid ==
    up => \A k \in DOMAIN keyDir :
            /\ keyDir[k].FileID \in DOMAIN logs \cup { activeLog.id }
            /\ \E d \in { Decode(FileOf(disk, HandleOf(keyDir[k])), keyDir[k].ValuePos) } :
                 /\ d.err = ErrNone
                 /\ d.rec.Key = k
                 /\ Len(d.rec.Value) = keyDir[k].ValueSize

\* C28: in every reachable state every index entry points to a non-tombstone
\* record (ValueSize > 0): a record with a zero-length value is always treated as
\* a deletion, so after Put(k, empty value) the key k is not live in the
\* in-memory index, as it is not live in an index rebuilt from disk.
C28_NoEmptyValueEntry ==
    up => /\ \A k \in DOMAIN keyDir : keyDir[k].ValueSize > 0
          /\ (hist # << >> /\ Last(hist).op = "Put" /\ Last(hist).val = NoValue)
               => Last(hist).key \notin DOMAIN keyDir

\* the offset immediately after the last of the valid records that f starts with
RECURSIVE EndOfValid(_, _)
EndOfValid(f, offset) ==
    IF ~(offset < Len(f)) THEN offset
    ELSE The({ IF d.err # ErrNone THEN offset ELSE EndOfValid(f, d.next) :
               d \in { Decode(f, offset) } })

\* C29: after BuildIndex on a segment holding any number n >= 0 of fully written
\* valid records, the segment's writePos equals the offset immediately after the
\* last valid record (the sum of the sizes 16 + |key| + |value| of the records
\* scanned), so the next Append starts exactly there, overwrites any torn tail
\* and leaves no gap.
C29_WritePosAfterLastRecord ==
    (hist # << >> /\ Last(hist).op = "Open" /\ Last(hist).err = ErrNone)
    => /\ activeLog.writePos = EndOfValid(FileOf(disk, activeLog), 0)
       /\ \A id \in DOMAIN logs :
            logs[id].writePos = EndOfValid(FileOf(disk, logs[id]), 0)

\* C30: each rotation seals the current active segment, records it in the sealed
\* map under its id, and makes a newly created segment with id = previous active
\* id + 1 the active one; consequently in every reachable state (also after
\* reopening a directory holding many segments and rotating again) the active
\* segment's id is strictly greater than every sealed segment's id and no two
\* held segments share an id or a file.
C30_ActiveIdHighest ==
    /\ [][ (up /\ activeLog'.id # activeLog.id /\ Last(hist').op = "Put")
           => /\ activeLog'.id = activeLog.id + 1
              /\ logs' = (activeLog.id :> MarkReadOnly(activeLog)) @@ logs ]_vars
    /\ [](up => /\ \A id \in DOMAIN logs : logs[id].id = id /\ id < activeLog.id
                /\ activeLog.id \notin DOMAIN logs)

-----------------------------------------------------------------------------
\* the history holds successful Put, Del and Compact calls only
NoRestart(h) ==
    \A i \in 1..Len(h) : h[i].op \in { "Put", "Del", "Compact" } /\ h[i].err = ErrNone

\* the bytes that the records of the index entries take
RECURSIVE LiveSize(_)
LiveSize(idx) ==
    IF DOMAIN idx = {} THEN 0
    ELSE The({ HeaderSize + Len(k) + idx[k].ValueSize + LiveSize(IndexDelete(idx, k)) :
               k \in { CHOOSE j \in DOMAIN idx : TRUE } })

CrashedAt(h) ==
    Max({0} \cup { i \in 1..Len(h) :
                     /\ h[i].op = "CompactCrash"
                     /\ \A j \in (i + 1)..Len(h) : h[j].op = "RecoverCrash" })

\* the store is down from a crash inside Compact that came after the marker was
\* written and before the temporary segment was flushed
BeforeFlush ==
    /\ ~up
    /\ CrashedAt(hist) > 0
    /\ hist[CrashedAt(hist)].n <= 1 + Cardinality(DOMAIN keyDir)

\* C24: Crash-during-compaction rollback. When the process died after the
\* marker was written and before the temporary segment was flushed, starting
\* the store again succeeds, every Get returns what it returned before the
\* compaction started, and neither the COMPACTING marker nor compact.tmp is
\* left.
C24_CrashBeforeFlushRollsBack ==
    [][ (BeforeFlush /\ Len(hist') = Len(hist) + 1 /\ Last(hist').op = "Start")
        => /\ up'
           /\ \A k \in CompactKeys : Get(St, k)' = Get(St, k)
           /\ MarkerFile(path) \notin DOMAIN disk'
           /\ TmpFile(path) \notin DOMAIN disk' ]_vars

\* the store is down from a crash inside Compact that came after the temporary
\* segment was flushed and before the marker was deleted
AfterFlush ==
    /\ ~up
    /\ CrashedAt(hist) > 0
    /\ hist[CrashedAt(hist)].n > 1 + Cardinality(DOMAIN keyDir)

RECURSIVE HoldsLive(_, _, _, _)
HoldsLive(f, offset, keys, idx) ==
    IF keys = << >> THEN offset = Len(f)
    ELSE \E d \in { Decode(f, offset) } :
            /\ d.err = ErrNone
            /\ d.rec.Key = Head(keys)
            /\ Len(d.rec.Value) = idx[Head(keys)].ValueSize
            /\ HoldsLive(f, d.next, Tail(keys), idx)

\* the compacted segment is in place and complete
CompactedComplete ==
    /\ CompactedID \in DOMAIN disk[path]
    /\ HoldsLive(disk[path][CompactedID], 0, LiveKeys(keyDir), keyDir)

\* some segment that the interrupted compaction retires is no longer on disk:
\* its file was deleted, or the rename has replaced it
OriginalMissing ==
    /\ MarkerFile(path) \in DOMAIN disk
    /\ \/ \E id \in disk[MarkerFile(path)].retiring : id \notin DOMAIN disk[path]
       \/ AfterFlush /\ TmpFile(path) \notin DOMAIN disk

\* C26: During compaction and its recovery no original segment file is deleted
\* before the compacted replacement is durable, and deleting the marker is the
\* last step: while the store is down from a crash inside Compact the marker is
\* on disk, and if some original segment is missing the compacted segment is
\* complete on disk; no state has compact.tmp without the marker.
C26_OriginalsOutliveCompaction ==
    /\ (~up /\ CrashedAt(hist) > 0)
         => /\ MarkerFile(path) \in DOMAIN disk
            /\ OriginalMissing => CompactedComplete
    /\ MarkerFile(path) \notin DOMAIN disk => TmpFile(path) \notin DOMAIN disk

C26_Witness ==
    /\ ~up
    /\ CrashedAt(hist) > 0
    /\ OriginalMissing
    /\ 3 \in disk[MarkerFile(path)].retiring
    /\ 2 \notin DOMAIN disk[path]
    /\ 3 \in DOMAIN disk[path]
    /\ CompactedComplete
    /\ Len(disk[path][CompactedID]) = 36

-----------------------------------------------------------------------------
\* the bytes of the file of handle lf in the directory tree dsk; none when the
\* file does not exist
BytesOf(dsk, lf) ==
    IF lf.dir \in DOMAIN dsk /\ lf.id \in DOMAIN dsk[lf.dir] THEN dsk[lf.dir][lf.id] ELSE << >>

\* the step is a call of op
Calls(op) ==
    Len(hist') = Len(hist) + 1 /\ Last(hist').op = op

\* C31: A single Put performs at most one rotation and at most two Append
\* attempts. When the record fits the active segment there is no rotation;
\* when it does not, the store rotates once (the active id grows by one, the
\* old active segment is the only new sealed one) and retries on the new
\* segment. One record is written, by one WriteAt at the returned position of
\* the segment that is active afterwards; a record larger than MaxDataFileSize
\* makes Put fail, and a failed Put leaves the index as it was and writes
\* nothing.
C31_OneRotationOneRetry ==
    [][ (up /\ Calls("Put"))
        => \E c \in { Last(hist') } :
            /\ activeLog'.id \in { activeLog.id, activeLog.id + 1 }
            /\ (HeaderSize + Len(c.key) + Len(c.val) + activeLog.writePos <= MaxDataFileSize)
                 => activeLog'.id = activeLog.id /\ logs' = logs /\ c.err = ErrNone
            /\ (HeaderSize + Len(c.key) + Len(c.val) + activeLog.writePos > MaxDataFileSize)
                 => /\ activeLog'.id = activeLog.id + 1
                    /\ DOMAIN logs' = DOMAIN logs \cup { activeLog.id }
            /\ (HeaderSize + Len(c.key) + Len(c.val) > MaxDataFileSize) => c.err # ErrNone
            /\ c.err = ErrNone
                 => /\ c.pos.FileID = activeLog'.id
                    /\ keyDir' = IndexSet(keyDir, c.key, c.pos)
                    /\ BytesOf(disk', activeLog')
                         = WriteAt(BytesOf(disk, activeLog'),
                                   Encode(c.key, c.val, c.now), c.pos.ValuePos)
            /\ c.err # ErrNone
                 => /\ keyDir' = keyDir
                    /\ BytesOf(disk', activeLog') = BytesOf(disk, activeLog')
            /\ \A d \in DOMAIN disk : \A id \in DOMAIN disk[d] :
                 (d # activeLog'.dir \/ id # activeLog'.id) => disk'[d][id] = disk[d][id] ]_vars

C31_Witness ==
    /\ up
    /\ Len(hist) = 2
    /\ hist[1].op = "Put" /\ hist[1].key = KeyA /\ hist[1].val = ValX /\ hist[1].err = ErrNone
    /\ hist[2].op = "Put" /\ hist[2].key = KeyB /\ hist[2].val = Huge /\ hist[2].err # ErrNone
    /\ activeLog.id = 2
    /\ DOMAIN keyDir = { KeyA }
    /\ Get(St, KeyA) = Found(ValX)

\* the record at offset pos of file f is a tombstone of key
TombstoneAt(f, pos, key) ==
    \E d \in { Decode(f, pos) } :
        d.err = ErrNone /\ d.rec.Key = key /\ d.rec.Value = << >>

\* C32: Del(k) on a key of the index appends the tombstone before it removes k
\* from the index: after a successful Del the tombstone of k is on disk at the
\* end of the active segment and k is not in the index; when the append fails
\* Del returns the error, nothing is written, k keeps its index entry and
\* Get(k) returns what it returned before.
C32_TombstoneBeforeIndex ==
    [][ (up /\ Calls("Del"))
        => \E c \in { Last(hist') } :
            /\ c.key \in DOMAIN keyDir
            /\ c.err = ErrNone
                 => /\ c.key \notin DOMAIN keyDir'
                    /\ \A k \in DOMAIN keyDir' : keyDir'[k] = keyDir[k]
                    /\ c.pos.FileID = activeLog.id
                    /\ c.pos.ValuePos = activeLog.writePos
                    /\ TombstoneAt(BytesOf(disk', activeLog), c.pos.ValuePos, c.key)
            /\ c.err # ErrNone
                 => /\ keyDir' = keyDir
                    /\ disk' = disk
                    /\ Get(St, c.key)' = Get(St, c.key) ]_vars

\* C33: For every reachable store state and every key k of the index, Del(k)
\* returns success and removes k from the index, also when the active segment
\* has no room left for the tombstone (the overflow is absorbed by a rotation,
\* as for Put).
C33_DelAlwaysSucceeds ==
    [][ (up /\ Calls("Del"))
        => /\ Last(hist').err = ErrNone
           /\ Last(hist').key \notin DOMAIN keyDir' ]_vars

\* the successful appends made through the handle held now, as history indexes
OwnAppends ==
    { i \in (HandleStart(hist) + 1)..Len(hist) :
        hist[i].op = "Append" /\ hist[i].err = ErrNone }

RecordSize(key, val) ==
    HeaderSize + Len(key) + Len(val)

\* C34: A successful Append(key, val) returns the position (FileID = the id of
\* the segment, ValuePos = writePos before the call, ValueSize = |val|) and
\* advances writePos by exactly 16 + |key| + |val|; the first append to a new
\* segment is at offset 0, and the successful appends to one segment have
\* increasing positions whose byte ranges do not overlap.
C34_AppendPosition ==
    activeLog # NoLog
    => /\ \A k \in AllKeys, v \in { NoValue, ValX }, now \in StoreClock :
            \E a \in { LogAppend(disk, activeLog, k, v, now) } :
                a.err = ErrNone
                => /\ a.pos.FileID = activeLog.id
                   /\ a.pos.ValuePos = activeLog.writePos
                   /\ a.pos.ValueSize = Len(v)
                   /\ a.lf.writePos = activeLog.writePos + RecordSize(k, v)
       /\ \A i \in OwnAppends, j \in OwnAppends :
            i < j => hist[i].pos.ValuePos + RecordSize(hist[i].key, hist[i].val)
                       <= hist[j].pos.ValuePos
       /\ \A id \in LogIds, k \in AllKeys, now \in StoreClock :
            (path \notin DOMAIN disk \/ id \notin DOMAIN disk[path])
            => \E a \in { LogAppend(CreateFile(disk, id, path), LogNew(disk, id, path),
                                    k, ValX, now) } :
                 a.err = ErrNone /\ a.pos.ValuePos = 0

\* C35: The timestamp of the position that a Put stores in the index equals
\* the timestamp in the header of the record it wrote, so the index entry made
\* by Put and the entry that a rebuild makes from the same record are equal
\* field for field.
C35_PositionTimestamp ==
    (up /\ hist # << >> /\ Last(hist).op = "Put" /\ Last(hist).err = ErrNone
        /\ Last(hist).key # EmptyKey /\ Last(hist).val # NoValue)
    => \E d \in { Decode(BytesOf(disk, HandleOf(keyDir[Last(hist).key])),
                         keyDir[Last(hist).key].ValuePos) } :
          /\ d.err = ErrNone
          /\ d.rec.Key = Last(hist).key
          /\ keyDir[Last(hist).key].timestamp = d.rec.Timestamp
          /\ keyDir[Last(hist).key]
               = NewLogPosition(keyDir[Last(hist).key].FileID, Int32(d.rec.ValueSize),
                                d.rec.Timestamp, keyDir[Last(hist).key].ValuePos)

\* the i-th call damaged a record that now decodes as partial or corrupt, and
\* every record before it in its segment is whole
FirstBadRecord(i) ==
    /\ hist[i].op \in { "Truncate", "Flip" }
    /\ hist[i].dir = path
    /\ Decode(disk[path][hist[i].pos.FileID], hist[i].pos.ValuePos).err
         \in { ErrPartialWrite, ErrCorruptRecord }
    /\ EndOfValid(disk[path][hist[i].pos.FileID], 0) = hist[i].pos.ValuePos

\* the j-th call appended the record that is the last one of its key before
\* the record damaged by the i-th call, and no other segment has the key
LastBefore(j, i) ==
    /\ hist[j].op = "Append" /\ hist[j].err = ErrNone
    /\ hist[j].dir = path
    /\ hist[j].pos.FileID = hist[i].pos.FileID
    /\ hist[j].pos.ValuePos < hist[i].pos.ValuePos
    /\ \A m \in 1..Len(hist) :
         (hist[m].op = "Append" /\ hist[m].err = ErrNone /\ hist[m].key = hist[j].key)
         => /\ hist[m].pos.FileID = hist[j].pos.FileID
            /\ (hist[m].pos.ValuePos > hist[j].pos.ValuePos
                  => hist[m].pos.ValuePos >= hist[i].pos.ValuePos)

\* C36: During the rebuild at startup the scan of a segment stops at its first
\* partial or corrupt record: Open succeeds, the records before it are
\* indexed, no record from its offset on is indexed, and the segment's
\* writePos is the offset of that record.
C36_ScanStopsAtBadRecord ==
    (hist # << >> /\ Last(hist).op = "Open")
    => \A i \in 1..Len(hist) :
         FirstBadRecord(i)
         => /\ Last(hist).err = ErrNone
            /\ HandleOf(hist[i].pos).id = hist[i].pos.FileID
            /\ HandleOf(hist[i].pos).writePos = hist[i].pos.ValuePos
            /\ \A k \in DOMAIN keyDir :
                 keyDir[k].FileID = hist[i].pos.FileID
                 => keyDir[k].ValuePos < hist[i].pos.ValuePos
            /\ \A j \in 1..(i - 1) :
                 LastBefore(j, i)
                 => /\ hist[j].key \in DOMAIN keyDir
                    /\ keyDir[hist[j].key].FileID = hist[j].pos.FileID
                    /\ keyDir[hist[j].key].ValuePos = hist[j].pos.ValuePos

-----------------------------------------------------------------------------
\* C38: every segment the store holds, the active one and the sealed ones, lies
\* in the directory the store was opened with, and its file is among the
\* segment files of that directory, so that log.Open on that path finds it.
C38_SegmentsInStoreDirectory ==
    up => /\ activeLog.dir = path
          /\ activeLog.id \in DOMAIN disk[path]
          /\ \A id \in DOMAIN logs :
               /\ logs[id].dir = path
               /\ id \in DOMAIN disk[path]

-----------------------------------------------------------------------------
\* C39: a Put that returns an error leaves the index, the active segment (its
\* identity and writability), the sealed map and the files on disk as they
\* were before the call.
C39_FailedPutChangesNothing ==
    [][ (up /\ Calls("Put") /\ Last(hist').err # ErrNone)
        => /\ keyDir' = keyDir
           /\ activeLog' = activeLog
           /\ logs' = logs
           /\ disk' = disk ]_vars

-----------------------------------------------------------------------------
\* the calls that start the store again on the directory it left behind
Recoveries == { "Reopen", "Crash" }

\* C40: recovery is total.  Every kv.New run on a directory the store itself
\* produced, by Put, Del, rotation, reopen and a crash inside an append, returns
\* without error, and the store it returns accepts a further Put.
C40_RecoveryTotal ==
    \A i \in 1..Len(hist) :
        hist[i].op \in Recoveries
        => /\ hist[i].err = ErrNone
           /\ i = Len(hist)
              => /\ up
                 /\ \A now \in StoreClock : Put(St, KeyA, ValX, now).err = ErrNone

-----------------------------------------------------------------------------
\* the Put calls that have returned without error
Succeeded ==
    { i \in 1..Len(hist) : hist[i].pc = "Done" /\ hist[i].err = ErrNone }

\* C37: concurrent Puts on one store behave as if serialized.  With two
\* goroutines interleaved at the steps of Append (read writePos, WriteAt, Sync,
\* advance writePos) and of the index update, no two successful Puts write at
\* the same offset of one segment, and the key of every successful Put maps to
\* a record carrying that key and the value of a successful Put of that key.
C37_ConcurrentPutsSerialized ==
    /\ \A i \in Succeeded : \A j \in Succeeded \ { i } :
         hist[i].log = hist[j].log => hist[i].at # hist[j].at
    /\ \A i \in Succeeded :
         /\ hist[i].key \in DOMAIN keyDir
         /\ \E d \in { Decode(FileOf(disk, HandleOf(keyDir[hist[i].key])),
                              keyDir[hist[i].key].ValuePos) } :
              /\ d.err = ErrNone
              /\ d.rec.Key = hist[i].key
              /\ \E j \in Succeeded : /\ hist[j].key = hist[i].key
                                      /\ hist[j].val = d.rec.Value

====
